---- MODULE Spec2Model ----
(***************************************************************************)
(* Model of the /downloadzip endpoint of fahimulhaque/DowloadZip.           *)
(*                                                                         *)
(* src/index.js registers downloadZip as the handler of GET /downloadzip.  *)
(* src/zipFile/zipfolder.js builds, per request, an archiver('zip')        *)
(* instance, pipes it into the express response and queues the directory   *)
(* 'Test/'.  The handler runs to completion synchronously; everything that *)
(* follows is a callback run by the event loop: archiver entries, the      *)
(* archiver 'error' and 'end' events, and the response 'close' event.      *)
(* Each callback is one action.  An exception thrown by a callback is not  *)
(* caught anywhere (index.js installs no uncaughtException handler), so it *)
(* terminates the server process.                                          *)
(***************************************************************************)
EXTENDS Integers, Sequences, FiniteSets, TLC

\* ------------------------------------------------------------------ bounds
\* Number of /downloadzip requests a behaviour may issue.
NumReqs == 2
\* Longest file content, in bytes.
MaxLen == 2

Reqs == 1..NumReqs
Bytes == 0..1
Contents == UNION {[1..n -> Bytes] : n \in 0..MaxLen}

\* ------------------------------------------------------- program constants
\* zipfolder.js:6  zlib: { level: 9 }
ZlibLevel == 9
\* zipfolder.js:10  respose.status(500)
ErrorStatus == 500
\* express: the status of a response whose handler never called status()
DefaultStatus == 200
\* zipfolder.js:23  archive.directory('Test/', false): the source directory
Root == <<"Test">>
\* zipfolder.js:23  second argument false: entries get no destination prefix
DestPath == <<>>
\* zipfolder.js:19  respose.attachment('folder.zip')
AttachmentName == "folder.zip"

\* ------------------------------------------------------- the file system
\* The files and subdirectories 'Test/' may hold, in the order the
\* archiver's directory walk visits them (a directory before its content).
FilePaths == {<<"Test", "a.txt">>, <<"Test", "sub", "b.txt">>}
DirPaths == {<<"Test", "sub">>}
WalkOrder == << <<"Test", "a.txt">>, <<"Test", "sub">>, <<"Test", "sub", "b.txt">> >>

Parent(p) == SubSeq(p, 1, Len(p) - 1)

VARIABLES
    fsFiles,      \* function: path of each existing file -> its content
    fsDirs,       \* set of existing subdirectories of Test/
    unreadable,   \* paths (files, or Root) that cannot be opened: EACCES
    alive,        \* the server process is running
    archive,      \* per request: the archiver instance of zipfolder.js:5
    response,     \* per request: the express response object `respose`
    conn,         \* per request: the state of the client's connection
    log,          \* per request: values printed by console.log
    servedAfter   \* per request: requests already closed when it was issued

vars == <<fsFiles, fsDirs, unreadable, alive, archive, response, conn, log, servedAfter>>

\* ------------------------------------------------------ pure operators
\* Length of the run of equal bytes that starts s (s is not empty).
RunLen(s) ==
    CHOOSE n \in 1..Len(s) :
        /\ \A i \in 1..n : s[i] = s[1]
        /\ (n = Len(s) \/ s[n + 1] # s[1])

\* What the zip module's compressor does to a file's bytes, abstracted as a
\* run-length encoding: one <<byte, count>> pair per run.
RECURSIVE Deflate(_)
Deflate(s) ==
    IF s = <<>> THEN <<>>
    ELSE <<<<s[1], RunLen(s)>>>> \o Deflate(SubSeq(s, RunLen(s) + 1, Len(s)))

\* What a client's unzip does to the compressed data of an entry.
RECURSIVE Inflate(_)
Inflate(z) ==
    IF z = <<>> THEN <<>>
    ELSE [i \in 1..z[1][2] |-> z[1][1]] \o Inflate(Tail(z))

\* Variant: archive.directory('Test/') without the second argument, which
\* keeps the source directory as the prefix of every entry name.
EntryNameUnderRoot(p) == Root \o SubSeq(p, Len(Root) + 1, Len(p))

\* archive.directory(dirpath, destpath): an entry is named by its path
\* relative to dirpath, prefixed by destpath.
EntryName(p) == DestPath \o SubSeq(p, Len(Root) + 1, Len(p))

\* The directory walk: every existing file and subdirectory under Root.
Walk == SelectSeq(WalkOrder, LAMBDA p : p \in DOMAIN fsFiles \/ p \in fsDirs)

\* A chunk of archive output, as written to a response.
\*   src: the request whose archiver produced it; type: "file" (local header,
\*   compressed data and descriptor of a file), "directory" (a directory
\*   entry), "header" (the local header of a file whose data never came),
\*   "central" (central directory and end record; index lists the entries).
Chunk(r, t, n, d, ix) == [src |-> r, type |-> t, name |-> n, data |-> d, index |-> ix]

ChunkSize(c) == 1 + Len(c.data) + Len(c.index)

\* ------------------------------------------------------- initial values
\* archive.open: the source files the archiver holds a handle on.
\* response.finals: the calls made so far that finalise the response
\* (end() by the pipe, send() by a listener).
NoArchive ==
    [created |-> FALSE, level |-> 0, onError |-> FALSE, onEnd |-> FALSE,
     pipes |-> {}, queue |-> <<>>, finalizing |-> FALSE, entries |-> <<>>,
     pointer |-> 0, errored |-> FALSE, stalled |-> FALSE, ended |-> FALSE,
     open |-> {}]

NoHeaders == [disposition |-> "", type |-> ""]

NewResponse ==
    [statusCode |-> DefaultStatus, headers |-> NoHeaders, headersSent |-> FALSE,
     sentStatus |-> 0, sentHeaders |-> NoHeaders, body |-> <<>>, json |-> "",
     finished |-> FALSE, closed |-> FALSE, onClose |-> FALSE, finals |-> 0]

Init ==
    /\ \E S \in SUBSET FilePaths : fsFiles \in [S -> Contents]
    /\ fsDirs \in SUBSET DirPaths
    /\ \A p \in DOMAIN fsFiles : Parent(p) = Root \/ Parent(p) \in fsDirs
    /\ unreadable \in {{}, {Root}}
    /\ alive = TRUE
    /\ archive = [r \in Reqs |-> NoArchive]
    /\ response = [r \in Reqs |-> NewResponse]
    /\ conn = [r \in Reqs |-> "none"]
    /\ log = [r \in Reqs |-> <<>>]
    /\ servedAfter = [r \in Reqs |-> {}]

\* ---------------------------------------------------- the response object
\* res.write(chunk), reached through archive.pipe(respose): the first write
\* flushes the status line and headers as they are at that moment.
ResWrite(res, chunk) ==
    IF res.finished THEN res
    ELSE [res EXCEPT
            !.sentStatus = IF res.headersSent THEN @ ELSE res.statusCode,
            !.sentHeaders = IF res.headersSent THEN @ ELSE res.headers,
            !.headersSent = TRUE,
            !.body = Append(@, chunk)]

\* Variant: archive.pipe(respose, {end: false}), which leaves the response
\* open when the archiver ends.
ResEndSkipped(res) == res

\* res.end(), called by the pipe when the archiver emits 'end'.
ResEnd(res) ==
    IF res.finished THEN [res EXCEPT !.finals = @ + 1]
    ELSE [res EXCEPT
            !.finals = @ + 1,
            !.sentStatus = IF res.headersSent THEN @ ELSE res.statusCode,
            !.sentHeaders = IF res.headersSent THEN @ ELSE res.headers,
            !.headersSent = TRUE,
            !.finished = TRUE]

\* Variant: the handler without the attachment() call.
ResAttachmentMissing(res, filename) == res

\* respose.attachment('folder.zip'): Content-Disposition and, from the
\* extension, Content-Type.
ResAttachment(res, filename) ==
    [res EXCEPT !.headers = [disposition |-> filename, type |-> "application/zip"]]

\* Variant: an 'error' listener that ends the response as it is when the
\* headers are already out, instead of throwing.
ErrorListenerEnds(res, msg) ==
    IF res.headersSent
    THEN [res |-> [res EXCEPT !.finished = TRUE, !.finals = @ + 1], threw |-> FALSE]
    ELSE [res |-> [res EXCEPT !.statusCode = ErrorStatus,
                              !.finals = @ + 1,
                              !.json = msg,
                              !.headersSent = TRUE,
                              !.sentStatus = ErrorStatus,
                              !.sentHeaders = res.headers,
                              !.finished = TRUE],
          threw |-> FALSE]

\* Variant: an 'error' listener that only logs the error.
ErrorListenerLogs(res, msg) == [res |-> res, threw |-> FALSE]

\* zipfolder.js:9-11, the archiver 'error' listener:
\*     respose.status(500).send({error: err.message})
\* status() assigns statusCode; send() sets headers, which throws
\* ERR_HTTP_HEADERS_SENT once the headers have been flushed; otherwise it
\* writes the JSON body and ends the response.
ErrorListener(res, msg) ==
    LET res1 == [res EXCEPT !.statusCode = ErrorStatus, !.finals = @ + 1] IN
    IF res1.headersSent
    THEN [res |-> res1, threw |-> TRUE]
    ELSE [res |-> [res1 EXCEPT !.json = msg,
                               !.headersSent = TRUE,
                               !.sentStatus = res1.statusCode,
                               !.sentHeaders = res1.headers,
                               !.finished = TRUE],
          threw |-> FALSE]

\* zipfolder.js:14-16, the archiver 'end' listener: console.log of pointer().
EndListener(lg, arch) == Append(lg, arch.pointer)

\* Variant: a 'close' listener that only logs.
CloseListenerLogs(res, lg, arch) ==
    [res |-> res, log |-> Append(lg, arch.pointer), threw |-> FALSE]

\* Variant: a 'close' listener whose line 27 names the parameter `respose`:
\* status(200), then send('OK'), which throws once the headers are out and
\* otherwise writes 'OK' and ends the response, then end().
CloseListenerSends(res, lg, arch) ==
    LET res1 == [res EXCEPT !.statusCode = DefaultStatus, !.finals = @ + 1] IN
    IF res1.headersSent
    THEN [res |-> res1, log |-> Append(lg, arch.pointer), threw |-> TRUE]
    ELSE [res |-> [res1 EXCEPT !.json = "OK",
                               !.headersSent = TRUE,
                               !.sentStatus = res1.statusCode,
                               !.sentHeaders = res1.headers,
                               !.finished = TRUE,
                               !.finals = @ + 1],
          log |-> Append(lg, arch.pointer), threw |-> FALSE]

\* zipfolder.js:25-28, the response 'close' listener: console.log of
\* pointer(), then `res.status(200)...` where `res` is bound nowhere: a
\* ReferenceError is thrown before anything touches the response.
CloseListener(res, lg, arch) ==
    [res |-> res, log |-> Append(lg, arch.pointer), threw |-> TRUE]

\* ------------------------------------------------------------- the process
\* An uncaught exception ends the server process: every connection that is
\* still open is reset by the operating system.
Crash(c) == [r \in Reqs |-> IF c[r] = "open" THEN "reset" ELSE c[r]]

\* The exit of the process closes every file handle it held.
Release(a) == [r \in Reqs |-> [a[r] EXCEPT !.open = {}]]

\* The archiver of request r pushes a chunk: pointer() advances and the chunk
\* is written to every response the archiver is piped into.
Push(arch, chunk) == [arch EXCEPT !.pointer = @ + ChunkSize(chunk)]

\* Variant: the handler without archive.pipe(respose): the archiver's output
\* reaches no response.
DeliverBuffered(resp, arch, chunk) == resp

Deliver(resp, arch, chunk) ==
    [d \in Reqs |-> IF d \in arch.pipes THEN ResWrite(resp[d], chunk) ELSE resp[d]]

\* Requests are numbered in the order in which they arrive.
NextToArrive(r) == conn[r] = "none" /\ \A q \in Reqs : q < r => conn[q] # "none"

\* --------------------------------------------------------------- actions
\* Variant: a handler that leaves the registration of the 'close' listener
\* to a later callback.
downloadZipLateClose(r) ==
    /\ alive
    /\ NextToArrive(r)
    /\ archive' = [archive EXCEPT ![r] =
            [NoArchive EXCEPT !.created = TRUE,
                              !.level = ZlibLevel,
                              !.onError = TRUE,
                              !.onEnd = TRUE,
                              !.pipes = {r},
                              !.queue = Walk,
                              !.finalizing = TRUE]]
    /\ response' = [response EXCEPT ![r] = ResAttachment(@, AttachmentName)]
    /\ conn' = [conn EXCEPT ![r] = "open"]
    /\ servedAfter' = [servedAfter EXCEPT ![r] = {q \in Reqs : response[q].closed}]
    /\ UNCHANGED <<fsFiles, fsDirs, unreadable, alive, log>>

\* zipfolder.js:3-31, the whole synchronous run of the handler.
downloadZip(r) ==
    /\ alive
    /\ NextToArrive(r)
    /\ archive' = [archive EXCEPT ![r] =
            [NoArchive EXCEPT !.created = TRUE,
                              !.level = ZlibLevel,
                              !.onError = TRUE,
                              !.onEnd = TRUE,
                              !.pipes = {r},
                              !.queue = Walk,
                              !.finalizing = TRUE]]
    /\ response' = [response EXCEPT ![r] =
            [ResAttachment(@, AttachmentName) EXCEPT !.onClose = TRUE]]
    /\ conn' = [conn EXCEPT ![r] = "open"]
    /\ servedAfter' = [servedAfter EXCEPT ![r] = {q \in Reqs : response[q].closed}]
    /\ UNCHANGED <<fsFiles, fsDirs, unreadable, alive, log>>

\* A request that arrives after the process has died is refused.
RequestRefused(r) ==
    /\ ~alive
    /\ NextToArrive(r)
    /\ conn' = [conn EXCEPT ![r] = "refused"]
    /\ servedAfter' = [servedAfter EXCEPT ![r] = {q \in Reqs : response[q].closed}]
    /\ UNCHANGED <<fsFiles, fsDirs, unreadable, alive, archive, response, log>>

\* The archiver's 'error' event for request r with message msg, after the
\* archiver state became arch and the responses resp: the listener of
\* zipfolder.js:9 runs; if it throws, the process dies.
EmitError(r, arch, resp, msg) ==
    LET out == ErrorListener(resp[r], msg) IN
    LET failed == [archive EXCEPT ![r] = [arch EXCEPT !.errored = TRUE]] IN
    /\ response' = [resp EXCEPT ![r] = IF arch.onError THEN out.res ELSE @]
    /\ IF arch.onError /\ ~out.threw
       THEN archive' = failed /\ UNCHANGED <<alive, conn>>
       ELSE archive' = Release(failed) /\ alive' = FALSE /\ conn' = Crash(conn)

\* The directory walk cannot list Test/ (EACCES): the archiver emits 'error'
\* before it has produced any byte, and the walk never ends.
ArchiveWalkError(r) ==
    /\ alive
    /\ archive[r].created /\ ~archive[r].ended /\ ~archive[r].stalled
    /\ Root \in unreadable
    /\ EmitError(r, [archive[r] EXCEPT !.stalled = TRUE], response, "EACCES")
    /\ UNCHANGED <<fsFiles, fsDirs, unreadable, log, servedAfter>>

\* The next path of the walk is a file: the archiver opens it for reading.
ArchiveOpen(r) ==
    /\ alive
    /\ archive[r].created /\ ~archive[r].ended /\ ~archive[r].stalled
    /\ Root \notin unreadable
    /\ archive[r].queue # <<>>
    /\ LET p == Head(archive[r].queue)
       IN  /\ p \in DOMAIN fsFiles
           /\ p \notin unreadable
           /\ p \notin archive[r].open
           /\ archive' = [archive EXCEPT ![r].open = @ \cup {p}]
    /\ UNCHANGED <<fsFiles, fsDirs, unreadable, alive, response, conn, log, servedAfter>>

\* The archiver takes the next path of the walk and appends it: a directory
\* entry, or an opened file whose data is read, compressed and pushed, and
\* whose handle is closed at the end of its data.
ArchiveEntry(r) ==
    /\ alive
    /\ archive[r].created /\ ~archive[r].ended /\ ~archive[r].stalled
    /\ Root \notin unreadable
    /\ archive[r].queue # <<>>
    /\ LET p == Head(archive[r].queue)
           isDir == p \in fsDirs
           chunk == IF isDir
                    THEN Chunk(r, "directory", EntryName(p), <<>>, <<>>)
                    ELSE Chunk(r, "file", EntryName(p), Deflate(fsFiles[p]), <<>>)
           arch == [Push(archive[r], chunk) EXCEPT
                        !.queue = Tail(@),
                        !.open = @ \ {p},
                        !.entries = Append(@, [name |-> chunk.name, type |-> chunk.type])]
       IN  /\ isDir \/ p \in archive[r].open
           /\ archive' = [archive EXCEPT ![r] = arch]
           /\ response' = Deliver(response, archive[r], chunk)
    /\ UNCHANGED <<fsFiles, fsDirs, unreadable, alive, conn, log, servedAfter>>

\* The next path of the walk is a file that cannot be opened: its local
\* header has been pushed when the read fails, and the archiver emits
\* 'error' and goes on with the rest of its queue.
ArchiveEntryError(r) ==
    /\ alive
    /\ archive[r].created /\ ~archive[r].ended /\ ~archive[r].stalled
    /\ Root \notin unreadable
    /\ archive[r].queue # <<>>
    /\ LET p == Head(archive[r].queue)
           chunk == Chunk(r, "header", EntryName(p), <<>>, <<>>)
           arch == [Push(archive[r], chunk) EXCEPT !.queue = Tail(@)]
       IN  /\ p \in unreadable
           /\ p \notin archive[r].open
           /\ EmitError(r, arch, Deliver(response, archive[r], chunk), "EACCES")
    /\ UNCHANGED <<fsFiles, fsDirs, unreadable, log, servedAfter>>

\* Variant: an archiver that finalises without waiting for its queue, as
\* when finalize() does not wait for the directory walk.
ArchiveEndEarly(r) ==
    /\ alive
    /\ archive[r].created /\ ~archive[r].ended /\ ~archive[r].stalled
    /\ Root \notin unreadable
    /\ archive[r].finalizing
    /\ LET chunk == Chunk(r, "central", <<>>, <<>>, archive[r].entries)
           arch == [Push(archive[r], chunk) EXCEPT !.ended = TRUE, !.open = {}]
           resp == Deliver(response, archive[r], chunk)
       IN  /\ archive' = [archive EXCEPT ![r] = arch]
           /\ response' = [d \in Reqs |->
                            IF d \in arch.pipes THEN ResEnd(resp[d]) ELSE resp[d]]
           /\ log' = [log EXCEPT ![r] = IF arch.onEnd THEN EndListener(@, arch) ELSE @]
    /\ UNCHANGED <<fsFiles, fsDirs, unreadable, alive, conn, servedAfter>>

\* finalize() was called and the queue is drained: the archiver pushes the
\* central directory, then emits 'end': the pipe ends every response it
\* feeds and the listener of zipfolder.js:14 logs.
ArchiveEnd(r) ==
    /\ alive
    /\ archive[r].created /\ ~archive[r].ended /\ ~archive[r].stalled
    /\ Root \notin unreadable
    /\ archive[r].finalizing
    /\ archive[r].queue = <<>>
    /\ LET chunk == Chunk(r, "central", <<>>, <<>>, archive[r].entries)
           arch == [Push(archive[r], chunk) EXCEPT !.ended = TRUE]
           resp == Deliver(response, archive[r], chunk)
       IN  /\ archive' = [archive EXCEPT ![r] = arch]
           /\ response' = [d \in Reqs |->
                            IF d \in arch.pipes THEN ResEnd(resp[d]) ELSE resp[d]]
           /\ log' = [log EXCEPT ![r] = IF arch.onEnd THEN EndListener(@, arch) ELSE @]
    /\ UNCHANGED <<fsFiles, fsDirs, unreadable, alive, conn, servedAfter>>

\* The response of request r emits 'close' and its connection becomes c: the
\* pipe's own listener unpipes the archiver, then the listener of
\* zipfolder.js:25 runs; if it throws, the process dies.
EmitClose(r, c) ==
    LET out == CloseListener(response[r], log[r], archive[r])
        ran == response[r].onClose
        cn == [conn EXCEPT ![r] = c]
        unpiped == [archive EXCEPT ![r].pipes = @ \ {r}]
    IN  /\ response' = [response EXCEPT ![r] =
                [(IF ran THEN out.res ELSE @) EXCEPT !.closed = TRUE]]
        /\ log' = [log EXCEPT ![r] = IF ran THEN out.log ELSE @]
        /\ IF ran /\ out.threw
           THEN archive' = Release(unpiped) /\ alive' = FALSE /\ conn' = Crash(cn)
           ELSE archive' = unpiped /\ alive' = alive /\ conn' = cn

\* The response is finished (ended by the pipe or by send()) and has been
\* flushed to the client: the response emits 'close'.
ResponseClose(r) ==
    /\ alive
    /\ conn[r] = "open"
    /\ response[r].finished
    /\ EmitClose(r, "done")
    /\ UNCHANGED <<fsFiles, fsDirs, unreadable, servedAfter>>

\* The client drops the connection before the response is finished: the
\* response emits 'close'.
ClientDisconnect(r) ==
    /\ alive
    /\ conn[r] = "open"
    /\ ~response[r].finished
    /\ EmitClose(r, "clientgone")
    /\ UNCHANGED <<fsFiles, fsDirs, unreadable, servedAfter>>

\* Environment: a source file loses its read permission.
MakeUnreadable(p) ==
    /\ alive
    /\ p \in DOMAIN fsFiles
    /\ p \notin unreadable
    /\ unreadable' = unreadable \cup {p}
    /\ UNCHANGED <<fsFiles, fsDirs, alive, archive, response, conn, log, servedAfter>>

Next ==
    \/ \E r \in Reqs : downloadZip(r)
    \/ \E r \in Reqs : RequestRefused(r)
    \/ \E r \in Reqs : ArchiveWalkError(r)
    \/ \E r \in Reqs : ArchiveOpen(r)
    \/ \E r \in Reqs : ArchiveEntry(r)
    \/ \E r \in Reqs : ArchiveEntryError(r)
    \/ \E r \in Reqs : ArchiveEnd(r)
    \/ \E r \in Reqs : ResponseClose(r)
    \/ \E r \in Reqs : ClientDisconnect(r)
    \/ \E p \in FilePaths : MakeUnreadable(p)

Spec == Init /\ [][Next]_vars

\* Every step the archiver of request r can take on its own.
ArchiverStep(r) ==
    \/ ArchiveWalkError(r)
    \/ ArchiveOpen(r)
    \/ ArchiveEntry(r)
    \/ ArchiveEntryError(r)
    \/ ArchiveEnd(r)

\* The event loop runs every callback that is ready: an archiver with work
\* to do gets to do it, and a finished response gets its 'close'.  Nothing
\* obliges a client to disconnect, a file to lose its permission or a new
\* request to arrive.
\* Whether a request makes progress does not depend on the bytes of the
\* files: every file holds MaxLen zero bytes.
FairInit ==
    /\ Init
    /\ \A p \in DOMAIN fsFiles : fsFiles[p] = [i \in 1..MaxLen |-> 0]

FairSpec ==
    /\ FairInit
    /\ [][Next]_vars
    /\ \A r \in Reqs : WF_vars(ArchiverStep(r)) /\ WF_vars(ResponseClose(r))

\* ================================================================ claims
\* What a client makes of a response body.
Complete(body) ==
    /\ body # <<>>
    /\ body[Len(body)].type = "central"
    /\ \A i \in 1..(Len(body) - 1) : body[i].type \in {"file", "directory"}
    /\ body[Len(body)].index =
         [i \in 1..(Len(body) - 1) |-> [name |-> body[i].name, type |-> body[i].type]]

Extract(body) ==
    {[name |-> body[i].name, type |-> body[i].type, content |-> Inflate(body[i].data)] :
        i \in 1..(Len(body) - 1)}

\* Path of p relative to the source directory 'Test/'.
RelPath(p) == Tail(p)

SourceFiles == {[name |-> RelPath(p), type |-> "file", content |-> fsFiles[p]] : p \in DOMAIN fsFiles}
SourceDirs == {[name |-> RelPath(p), type |-> "directory", content |-> <<>>] : p \in fsDirs}

\* The response of r was ended with status 200 and a whole archive.
Delivered(r) ==
    /\ response[r].finished
    /\ response[r].sentStatus = DefaultStatus
    /\ Complete(response[r].body)

\* The response of r was ended with the 500 JSON error and no archive byte.
ErrorResponse(r) ==
    /\ response[r].finished
    /\ response[r].sentStatus = ErrorStatus
    /\ response[r].json # ""
    /\ response[r].body = <<>>

\* The connection of r ended without the response having been ended.
Aborted(r) == ~response[r].finished /\ conn[r] \in {"reset", "clientgone"}

\* C1: whenever the archive of a request has failed, before or after the
\* first body byte, the client has status 500 and the JSON {error: message};
\* a request whose archive ended without failure has status 200 and the
\* whole archive.
C1_Original ==
    \A r \in Reqs :
        /\ archive[r].errored =>
              /\ response[r].sentStatus = ErrorStatus
              /\ response[r].json = "EACCES"
        /\ (archive[r].ended /\ ~archive[r].errored) => Delivered(r)

\* C2: when a source file turns out unreadable during construction, the
\* response ends as a 500 with an error field, and in no state has an archive
\* failed with body bytes already committed under status 200.
C2_Original ==
    \A r \in Reqs :
        /\ (archive[r].errored /\ ~archive[r].stalled) =>
              (response[r].finished /\ response[r].sentStatus = ErrorStatus
                 /\ response[r].json # "")
        /\ ~(archive[r].errored /\ response[r].body # <<>>
               /\ response[r].sentStatus = DefaultStatus)

\* C3: no callback of a request lets an exception reach the process: the
\* server stays alive and no later request is refused.
C3_Original == alive /\ \A r \in Reqs : conn[r] # "refused"

\* C4: a request whose connection is over has exactly one of three outcomes:
\* whole archive and response ended; error response with no archive byte;
\* connection aborted with the response not ended.  An archive error after
\* body bytes gives the third, and a response that was ended never holds a
\* truncated archive.
C4_Outcomes ==
    \A r \in Reqs :
        /\ conn[r] \in {"done", "reset", "clientgone"} =>
              /\ Delivered(r) \/ ErrorResponse(r) \/ Aborted(r)
              /\ ~(Delivered(r) /\ ErrorResponse(r))
              /\ ~(Delivered(r) /\ Aborted(r))
              /\ ~(ErrorResponse(r) /\ Aborted(r))
        /\ (archive[r].errored /\ response[r].body # <<>>) => Aborted(r)
        /\ response[r].finished =>
              (response[r].body = <<>> \/ Complete(response[r].body))

\* C4 witness: an archive failed after body bytes had been written.
C4_Witness ==
    \E r \in Reqs :
        /\ archive[r].errored
        /\ Len(response[r].body) > 1
        /\ Aborted(r)

\* C5: every chunk in a response comes from that request's own archiver, and
\* a request whose connection is over, whose archive did not fail and whose
\* client did not leave has the whole archive.
C5_Original ==
    \A r \in Reqs :
        /\ \A i \in 1..Len(response[r].body) : response[r].body[i].src = r
        /\ (conn[r] \in {"done", "reset"} /\ ~archive[r].errored) => Delivered(r)

\* C6: a response that holds a body byte had the attachment header for
\* folder.zip in the headers that went out ahead of its first byte.
C6_MetadataFirst ==
    \A r \in Reqs :
        response[r].body # <<>> =>
            /\ response[r].headersSent
            /\ response[r].sentHeaders.disposition = AttachmentName

\* C6 witness: a response with archive bytes in its body.
C6_Witness == \E r \in Reqs : response[r].body # <<>> /\ response[r].body[1].type = "file"

\* C7: a delivered archive has exactly the source files as its entries, each
\* under its path relative to Test/ and with the file's content.
C7_Original == \A r \in Reqs : Delivered(r) => Extract(response[r].body) = SourceFiles

\* C7 amended: the file entries of a delivered archive are exactly the source
\* files, under their paths relative to Test/ and with their content; the
\* other entries are one directory entry per subdirectory, none for Test/.
C7_EntriesAreTree ==
    \A r \in Reqs :
        Delivered(r) =>
            /\ {e \in Extract(response[r].body) : e.type = "file"} = SourceFiles
            /\ {e \in Extract(response[r].body) : e.type # "file"} = SourceDirs
            /\ \A e \in Extract(response[r].body) : e.name # <<>> /\ e.name[1] # Root[1]

\* C7 witness: a delivered archive of a tree with a file at the top and a
\* file with a run of equal bytes in the subdirectory.
C7_Witness ==
    \E r \in Reqs :
        /\ Delivered(r)
        /\ DOMAIN fsFiles = FilePaths
        /\ \E p \in FilePaths : Len(fsFiles[p]) = 2 /\ fsFiles[p][1] = fsFiles[p][2]

\* C8: with no file under a listable Test/, the archive never fails, and once
\* it has ended the response is ended with status 200 and no entry.
C8_Original ==
    \A r \in Reqs :
        (DOMAIN fsFiles = {} /\ Root \notin unreadable) =>
            /\ ~archive[r].errored
            /\ archive[r].ended =>
                  /\ Delivered(r)
                  /\ Extract(response[r].body) = {}

\* C8 amended: the same, for a Test/ with neither files nor subdirectories.
C8_EmptyDirectory ==
    \A r \in Reqs :
        (DOMAIN fsFiles = {} /\ fsDirs = {} /\ Root \notin unreadable) =>
            /\ ~archive[r].errored
            /\ archive[r].ended =>
                  /\ Delivered(r)
                  /\ Extract(response[r].body) = {}
                  /\ response[r].json = ""

\* C8 witness: the archive of an empty Test/ has ended.
C8_Witness ==
    \E r \in Reqs :
        /\ DOMAIN fsFiles = {} /\ fsDirs = {} /\ Root \notin unreadable
        /\ archive[r].ended
        /\ Len(response[r].body) = 1

\* C9: a request issued after an earlier one was delivered and closed is
\* served, and what it delivers has the same entries with the same content.
C9_Original ==
    \A q, r \in Reqs :
        (q \in servedAfter[r] /\ Delivered(q)) =>
            /\ conn[r] # "refused"
            /\ Delivered(r) => Extract(response[r].body) = Extract(response[q].body)

\* C10: once the close event of a client disconnect has been handled, the
\* archiver of that request takes no further path from its queue and pushes
\* no further byte.
C10_DisconnectStopsBuild ==
    [][\A r \in Reqs :
          conn[r] = "clientgone" =>
              /\ archive'[r].queue = archive[r].queue
              /\ archive'[r].pointer = archive[r].pointer
              /\ archive'[r].ended = archive[r].ended]_vars

\* C10 witness: the client of a request left while paths were still queued.
C10_Witness ==
    \E r \in Reqs :
        /\ conn[r] = "clientgone"
        /\ response[r].closed
        /\ archive[r].queue # <<>>

\* The state of a request in the state machine Idle, Building, Completed,
\* Failed, read off its archiver.
Phase(r) ==
    IF ~archive[r].created THEN "Idle"
    ELSE IF archive[r].errored THEN "Failed"
    ELSE IF archive[r].ended THEN "Completed"
    ELSE "Building"

\* C11: once the archiver of a request has emitted an error, no step adds a
\* chunk to the body of that request's response.
C11_NoWriteAfterFailed ==
    [][\A r \in Reqs :
          archive[r].errored => response'[r].body = response[r].body]_vars

\* C11 witness: an archiver failed after it wrote bytes and with paths still
\* in its queue.
C11_Witness ==
    \E r \in Reqs :
        /\ archive[r].errored
        /\ response[r].body # <<>>
        /\ archive[r].queue # <<>>

C13_Lifecycle ==
    [][\A r \in Reqs :
          /\ \/ Phase(r)' = Phase(r)
             \/ Phase(r) = "Idle" /\ Phase(r)' = "Building"
             \/ Phase(r) = "Building" /\ Phase(r)' \in {"Completed", "Failed"}
          /\ ~(archive'[r].errored /\ archive'[r].ended)
          /\ Phase(r) \in {"Completed", "Failed"} =>
                /\ archive'[r].queue = archive[r].queue
                /\ archive'[r].entries = archive[r].entries
                /\ archive'[r].pointer = archive[r].pointer]_vars

\* C13 witness: one request is Failed while another is Completed.
C13_Witness ==
    \E q, r \in Reqs : Phase(q) = "Failed" /\ Phase(r) = "Completed"

\* C14: a response ended with status 200 holds one chunk for every path of
\* the directory walk, in order, followed by the central directory; and no
\* step adds a chunk to a response that has been ended.
C14_EndAfterAllEntries ==
    [][\A r \in Reqs :
          /\ (response'[r].finished /\ response'[r].sentStatus = DefaultStatus) =>
                /\ Complete(response'[r].body)
                /\ [i \in 1..(Len(response'[r].body) - 1) |-> response'[r].body[i].name]
                     = [i \in 1..Len(Walk) |-> RelPath(Walk[i])]
          /\ response[r].finished => response'[r].body = response[r].body]_vars

\* C14 witness: a delivered archive with at least two entries ahead of its
\* central directory.
C14_Witness == \E r \in Reqs : Delivered(r) /\ Len(response[r].body) >= 3

\* C15: a request whose archive has ended or failed, or whose connection is
\* over, holds no source file open.
C15_NoOpenHandles ==
    \A r \in Reqs :
        (\/ archive[r].ended
         \/ archive[r].errored
         \/ response[r].closed
         \/ conn[r] \in {"done", "reset", "clientgone"}) => archive[r].open = {}

\* C15 witness: the client left while the next path of the queue was a file.
C15_Witness ==
    \E r \in Reqs :
        /\ conn[r] = "clientgone"
        /\ archive[r].queue # <<>>
        /\ Head(archive[r].queue) \in DOMAIN fsFiles
        /\ Len(response[r].body) >= 1

\* C16: under fair scheduling a request that is Building with its connection
\* open eventually is Completed with its response ended, or Failed with the
\* error response sent or the connection reset, or has lost its connection.
C16_EventuallyLeavesBuilding ==
    \A r \in Reqs :
        (Phase(r) = "Building" /\ conn[r] = "open") ~>
            \/ Phase(r) = "Completed" /\ response[r].finished
            \/ Phase(r) = "Failed" /\ (ErrorResponse(r) \/ conn[r] = "reset")
            \/ conn[r] \in {"reset", "clientgone"}

\* C16 witness: a request that was served to the end, closed included.
C16_Witness ==
    \E r \in Reqs : Phase(r) = "Completed" /\ response[r].finished /\ conn[r] = "done"

\* Bytes of a response body, counted as pointer() counts them.
RECURSIVE BodySize(_)
BodySize(body) ==
    IF body = <<>> THEN 0 ELSE ChunkSize(Head(body)) + BodySize(Tail(body))

\* C17: the response is piped from the handler's run until it closes, and
\* every byte the archiver has pushed is in the response body at once:
\* nothing waits for later entries.
C17_Incremental ==
    \A r \in Reqs :
        /\ (archive[r].created /\ ~response[r].closed) => r \in archive[r].pipes
        /\ BodySize(response[r].body) = archive[r].pointer

\* C17 witness: the data of an earlier file is in the response while a later
\* file is still queued and not opened.
C17_Witness ==
    \E r \in Reqs :
        /\ response[r].body # <<>>
        /\ response[r].body[1].type = "file"
        /\ archive[r].queue # <<>>
        /\ archive[r].queue[Len(archive[r].queue)] \in DOMAIN fsFiles
        /\ archive[r].open = {}
        /\ alive

\* C18: every event of a request finds its listener: an 'error' finds the
\* error listener, an 'end' the end listener and the pipe, a pushed chunk
\* the pipe, and a 'close' the close listener.
C18_ListenersFirst ==
    [][\A r \in Reqs :
          /\ (archive'[r].errored /\ ~archive[r].errored) => archive[r].onError
          /\ (archive'[r].ended /\ ~archive[r].ended) =>
                (archive[r].onEnd /\ r \in archive[r].pipes)
          /\ archive'[r].pointer > archive[r].pointer => r \in archive[r].pipes
          /\ (response'[r].closed /\ ~response[r].closed) => response[r].onClose]_vars

\* C18 witness: a close event was handled before the archiver produced
\* anything.
C18_Witness ==
    \E r \in Reqs :
        /\ response[r].closed
        /\ log[r] = <<0>>
        /\ archive[r].pointer = 0

\* C19: from the handler's run on the response holds the attachment header
\* for folder.zip, and every response whose headers went out, the 500 JSON
\* error included, went out with it.
C19_AttachmentAlways ==
    \A r \in Reqs :
        /\ archive[r].created => response[r].headers.disposition = AttachmentName
        /\ response[r].headersSent => response[r].sentHeaders.disposition = AttachmentName

\* C19 witness: the 500 JSON error response was sent.
C19_Witness ==
    \E r \in Reqs : ErrorResponse(r) /\ response[r].sentHeaders.disposition = AttachmentName

\* C20: the step that handles a close event leaves the response's status
\* code, sent status, body, JSON payload and ended flag as they were.
C20_CloseLeavesResponse ==
    [][\A r \in Reqs :
          (response'[r].closed /\ ~response[r].closed) =>
              /\ response'[r].statusCode = response[r].statusCode
              /\ response'[r].sentStatus = response[r].sentStatus
              /\ response'[r].headersSent = response[r].headersSent
              /\ response'[r].body = response[r].body
              /\ response'[r].json = response[r].json
              /\ response'[r].finished = response[r].finished]_vars

\* C20 witness: the close of a client disconnect was handled before any
\* header had gone out.
C20_Witness ==
    \E r \in Reqs :
        /\ response[r].closed
        /\ conn[r] = "clientgone"
        /\ ~response[r].headersSent
        /\ log[r] # <<>>

====
